---- MODULE Spec2Model ----
(***************************************************************************)
(* Calendar heat map (calendar/js/index.js): one <svg> per year, one       *)
(* <rect class="day"> per day, one <path class="month"> per month, with    *)
(* the day cells coloured from the rows of calendar/data/events.csv.       *)
(*                                                                         *)
(* A Date object is modelled by the number of its (local) day counted from *)
(* 1970-01-01; every Date the script builds is a local midnight.  A date   *)
(* string "YYYY-MM-DD" is modelled by the triple <<YYYY, MM, DD>>.         *)
(***************************************************************************)
EXTENDS Integers, Sequences, FiniteSets, TLC

VARIABLES
    response,     \* what d3.csv hands to its callback: [err, csv]
    pc,           \* "loading" | "thrown" | "rendered"
    calls,        \* the functions the callback has invoked, in order
    data,         \* the d3 map built by transformCsvData
    yearGroups,   \* the <svg class="year"> elements (their data: the year)
    dayRects,     \* the <rect> elements of the watched group, in document order
    monthPaths,   \* the <path> elements of the watched group, in document order
    thrown,       \* what the callback threw ("none": nothing)
    watch,        \* the year whose group dayRects and monthPaths are those of
    gYear,        \* one year group: its year
    gDays,        \* one year group: getAllDaysInYear( year )
    gRects,       \* one year group: its <rect> elements
    gMonth,       \* one year group: the month being outlined
    gPath,        \* one year group: the outline of gMonth (8 vertices)
    fArgs,        \* the outline formula alone: its four indices
    fPath         \* the outline formula alone: its 8 vertices

vars == << response, pc, calls, data, yearGroups, dayRects, monthPaths,
           thrown, watch, gYear, gDays, gRects, gMonth, gPath, fArgs, fPath >>

pipeVars == << response, pc, calls, data, yearGroups, dayRects, monthPaths,
               thrown, watch >>
gridVars == << gYear, gDays, gRects, gMonth, gPath >>
formVars == << fArgs, fPath >>

(***************************************************************************)
(* Program constants.                                                      *)
(***************************************************************************)
FirstYear == 2016
StopYear == 2100
cellSize == 17
YearColumns == 53
GridRows == 7
ColorCount == 10
DomainMin == 0
DomainMax == 100

(***************************************************************************)
(* Date: the constructor and the getters the script uses.                  *)
(***************************************************************************)
IsLeapYear(y) == (y % 4 = 0 /\ y % 100 # 0) \/ y % 400 = 0

DaysInYear(y) == IF IsLeapYear(y) THEN 366 ELSE 365

\* Day number of January 1 of year y.
DayFromYear(y) ==
    365 * (y - 1970) + ((y - 1969) \div 4) - ((y - 1901) \div 100)
        + ((y - 1601) \div 400)

\* Days of year y before its month m (0..11); m = 12 gives the whole year.
DaysBeforeMonth(y, m) ==
    << 0, 31, 59, 90, 120, 151, 181, 212, 243, 273, 304, 334, 365 >>[m + 1]
        + (IF m >= 2 /\ IsLeapYear(y) THEN 1 ELSE 0)

\* new Date( y, m, d ): m past 11 carries into the year, d = 0 is the day
\* before the first of the month.
NewDate(y, m, d) ==
    LET ym == y + (m \div 12)
        mn == m % 12
    IN  DayFromYear(ym) + DaysBeforeMonth(ym, mn) + d - 1

getFullYear(date) ==
    LET y0 == 1970 + (date \div 366)
    IN  CHOOSE y \in y0 .. (y0 + 2) :
            DayFromYear(y) <= date /\ date < DayFromYear(y + 1)

getMonth(date) ==
    LET y == getFullYear(date)
        n == date - DayFromYear(y)
    IN  CHOOSE m \in 0 .. 11 :
            DaysBeforeMonth(y, m) <= n /\ n < DaysBeforeMonth(y, m + 1)

getDate(date) ==
    LET y == getFullYear(date)
    IN  date - DayFromYear(y) - DaysBeforeMonth(y, getMonth(date)) + 1

\* 1970-01-01 was a Thursday (4).
getDay(date) == (date + 4) % 7

(***************************************************************************)
(* d3-time and d3-time-format, as the script uses them.                    *)
(***************************************************************************)
\* d3.timeYear( date ): floor to January 1.
d3_timeYear(date) == NewDate(getFullYear(date), 0, 1)

\* d3.timeWeek( date ): floor to the Sunday that starts the week.
d3_timeWeek(date) == date - getDay(date)

\* d3.timeWeek.count( start, end ): both floored, then whole weeks between.
d3_timeWeek_count(start, end) ==
    (d3_timeWeek(end) - d3_timeWeek(start)) \div 7

\* d3.timeDays( start, stop ): every day from start, stop excluded.
d3_timeDays(start, stop) ==
    [i \in 1 .. (IF stop > start THEN stop - start ELSE 0) |-> start + i - 1]

\* d3.timeMonth.ceil( date )
d3_timeMonth_ceil(date) ==
    IF getDate(date) = 1 THEN date
    ELSE NewDate(getFullYear(date), getMonth(date) + 1, 1)

RECURSIVE MonthsFrom(_, _)
MonthsFrom(cur, stop) ==
    IF cur >= stop THEN << >>
    ELSE << cur >> \o MonthsFrom(NewDate(getFullYear(cur), getMonth(cur) + 1, 1), stop)

\* d3.timeMonths( start, stop ): every first-of-month from start, stop excluded.
d3_timeMonths(start, stop) == MonthsFrom(d3_timeMonth_ceil(start), stop)

\* d3.timeFormat( "%Y-%m-%d" )
d3_timeFormat(date) == << getFullYear(date), getMonth(date) + 1, getDate(date) >>

\* d3.range( start, stop )
d3_range(start, stop) ==
    [i \in 1 .. (IF stop > start THEN stop - start ELSE 0) |-> start + i - 1]

(***************************************************************************)
(* generateYearGroups                                                      *)
(***************************************************************************)
generateYearGroups == d3_range(FirstYear, StopYear)

(***************************************************************************)
(* generateDayRects and attachTitlesToDayRects                             *)
(***************************************************************************)
\* getWeekNumber counting weeks that start on Monday (d3.timeMonday).
getWeekNumber_MondayWeeks(date) ==
    ((date - ((getDay(date) + 6) % 7))
        - (d3_timeYear(date) - ((getDay(d3_timeYear(date)) + 6) % 7))) \div 7

getWeekNumber(date) == d3_timeWeek_count(d3_timeYear(date), date)

getDayNumber(date) == getDay(date)

getX(date) == getWeekNumber(date) * cellSize

getY(date) == getDayNumber(date) * cellSize

\* getAllDaysInYear stopping at December 31 instead of the next January 1.
getAllDaysInYear_StopsAtDec31(year) ==
    d3_timeDays(NewDate(year, 0, 1), NewDate(year, 11, 31))

getAllDaysInYear(year) == d3_timeDays(NewDate(year, 0, 1), NewDate(year + 1, 0, 1))

\* One <rect> of a year group.  The class attribute is a list of tokens,
\* the colour token "colorK" being << "color", K >>; the text of the
\* <title> child is the list of the strings concatenated into it.
DayRect(date) ==
    [ x     |-> getX(date),
      y     |-> getY(date),
      datum |-> d3_timeFormat(date),
      class |-> << "day" >>,
      title |-> << >> ]

\* The <rect> elements generateDayRects appends to the group of one year.
generateDayRects(year) ==
    LET days == getAllDaysInYear(year)
    IN  [i \in 1 .. Len(days) |-> DayRect(days[i])]

\* The <title> child: its text is the datum of the <rect>.
attachTitle(rect) == [rect EXCEPT !.title = << rect.datum >>]

attachTitlesToDayRects(rects) ==
    [i \in 1 .. Len(rects) |-> attachTitle(rects[i])]

(***************************************************************************)
(* updateClassAndTitleForDayRects                                          *)
(***************************************************************************)
\* The thresholds of d3.scaleQuantize().domain( [ x0, x1 ] ) with n range
\* values: (( n - i ) * x0 + i * x1 ) / n for i in 1 .. n - 1.
QuantizeThresholds ==
    [i \in 1 .. (ColorCount - 1) |->
        ((ColorCount - i) * DomainMin + i * DomainMax) \div ColorCount]

\* The bucket as the line the script has commented out computes it:
\* Math.ceil( Value / 10 ).
getColorScale_Ceil(v) == << "color", (v + 9) \div 10 >>

\* color( v ): the range value at bisectRight( thresholds, v ), which is the
\* number of thresholds that are <= v.
getColorScale(v) ==
    << "color", Cardinality({i \in 1 .. (ColorCount - 1) : QuantizeThresholds[i] <= v}) >>

isRectDataInCsvData(map, dateString) == dateString \in DOMAIN map

getRectClass(map, dateString) == << "day", getColorScale(map[dateString].Value) >>

getRectTitle(map, dateString) == << dateString, ": ", map[dateString].Name >>

updateRect(map, rect) ==
    IF isRectDataInCsvData(map, rect.datum)
    THEN [rect EXCEPT !.class = getRectClass(map, rect.datum),
                      !.title = getRectTitle(map, rect.datum)]
    ELSE rect

updateClassAndTitleForDayRects(rects, map) ==
    [i \in 1 .. Len(rects) |-> updateRect(map, rects[i])]

(***************************************************************************)
(* transformCsvData                                                        *)
(***************************************************************************)
getDataObjectKey(dataObject) == dataObject.Date

\* getDataObjectValue reading the last row of the group instead of the first.
getDataObjectValue_LastRow(dataObjects) ==
    [Value |-> dataObjects[Len(dataObjects)].Value,
     Name  |-> dataObjects[Len(dataObjects)].Name]

getDataObjectValue(dataObjects) ==
    [Value |-> dataObjects[1].Value, Name |-> dataObjects[1].Name]

\* d3.nest().key( k ).map( csv ): each key's rows, in input order.
NestValues(csv, key) ==
    LET HasKey(row) == getDataObjectKey(row) = key
    IN  SelectSeq(csv, HasKey)

transformCsvData(csv) ==
    [key \in {getDataObjectKey(csv[i]) : i \in 1 .. Len(csv)} |->
        getDataObjectValue(NestValues(csv, key))]

(***************************************************************************)
(* appendMonthPathsToYearGroups                                            *)
(***************************************************************************)
getAllMonthsInYear(year) == d3_timeMonths(NewDate(year, 0, 1), NewDate(year + 1, 0, 1))

\* PathFormula with lineto #4 stopping at the top of the last day's cell
\* instead of its bottom.
PathFormula_LastDayRow(thisMonthWeekOfYear, thisMonthDayOfWeek, nextMonthWeekOfYear, nextMonthDayOfWeek) ==
    << << "M", (thisMonthWeekOfYear + 1) * cellSize, thisMonthDayOfWeek * cellSize >>,
       << "H", thisMonthWeekOfYear * cellSize >>,
       << "V", GridRows * cellSize >>,
       << "H", nextMonthWeekOfYear * cellSize >>,
       << "V", nextMonthDayOfWeek * cellSize >>,
       << "H", (nextMonthWeekOfYear + 1) * cellSize >>,
       << "V", 0 >>,
       << "H", (thisMonthWeekOfYear + 1) * cellSize >>,
       << "Z" >> >>

\* PathFormula with lineto #7 ending at the left of the first day's column
\* instead of its right.
PathFormula_CloseAtColumnStart(thisMonthWeekOfYear, thisMonthDayOfWeek, nextMonthWeekOfYear, nextMonthDayOfWeek) ==
    << << "M", (thisMonthWeekOfYear + 1) * cellSize, thisMonthDayOfWeek * cellSize >>,
       << "H", thisMonthWeekOfYear * cellSize >>,
       << "V", GridRows * cellSize >>,
       << "H", nextMonthWeekOfYear * cellSize >>,
       << "V", (nextMonthDayOfWeek + 1) * cellSize >>,
       << "H", (nextMonthWeekOfYear + 1) * cellSize >>,
       << "V", 0 >>,
       << "H", thisMonthWeekOfYear * cellSize >>,
       << "Z" >> >>

\* PathFormula with lineto #2 one row short of the bottom of the grid.
PathFormula_ShortBottom(thisMonthWeekOfYear, thisMonthDayOfWeek, nextMonthWeekOfYear, nextMonthDayOfWeek) ==
    << << "M", (thisMonthWeekOfYear + 1) * cellSize, thisMonthDayOfWeek * cellSize >>,
       << "H", thisMonthWeekOfYear * cellSize >>,
       << "V", (GridRows - 1) * cellSize >>,
       << "H", nextMonthWeekOfYear * cellSize >>,
       << "V", (nextMonthDayOfWeek + 1) * cellSize >>,
       << "H", (nextMonthWeekOfYear + 1) * cellSize >>,
       << "V", 0 >>,
       << "H", (thisMonthWeekOfYear + 1) * cellSize >>,
       << "Z" >> >>

\* The path description built from the week and day indices of the first
\* and of the last day of a month: a list of path commands.
PathFormula(thisMonthWeekOfYear, thisMonthDayOfWeek, nextMonthWeekOfYear, nextMonthDayOfWeek) ==
    << << "M", (thisMonthWeekOfYear + 1) * cellSize, thisMonthDayOfWeek * cellSize >>,
       << "H", thisMonthWeekOfYear * cellSize >>,
       << "V", GridRows * cellSize >>,
       << "H", nextMonthWeekOfYear * cellSize >>,
       << "V", (nextMonthDayOfWeek + 1) * cellSize >>,
       << "H", (nextMonthWeekOfYear + 1) * cellSize >>,
       << "V", 0 >>,
       << "H", (thisMonthWeekOfYear + 1) * cellSize >>,
       << "Z" >> >>

\* getPathDescriptionForMonth taking the first day of the following month
\* (day 1) where the script takes the last day of the month (day 0).
getPathDescriptionForMonth_NextFirst(month) ==
    LET nextMonth == NewDate(getFullYear(month), getMonth(month) + 1, 1)
    IN  PathFormula(d3_timeWeek_count(d3_timeYear(month), month),
                    getDay(month),
                    d3_timeWeek_count(d3_timeYear(nextMonth), nextMonth),
                    getDay(nextMonth))

getPathDescriptionForMonth(month) ==
    LET nextMonth == NewDate(getFullYear(month), getMonth(month) + 1, 0)
    IN  PathFormula(d3_timeWeek_count(d3_timeYear(month), month),
                    getDay(month),
                    d3_timeWeek_count(d3_timeYear(nextMonth), nextMonth),
                    getDay(nextMonth))

\* The <path class="month"> elements of the group of one year.
appendMonthPaths(year) ==
    LET months == getAllMonthsInYear(year)
    IN  [i \in 1 .. Len(months) |->
            [datum |-> months[i], d |-> getPathDescriptionForMonth(months[i])]]

\* The points a path description visits, as the renderer draws it: M moves
\* to a point, H keeps the y and V keeps the x of the current point, Z closes
\* the path back to the first point and adds none.
RECURSIVE PathVerticesFrom(_, _, _)
PathVerticesFrom(path, i, cur) ==
    IF i > Len(path) THEN << >>
    ELSE LET c == path[i]
             pt == CASE c[1] = "M" -> << c[2], c[3] >>
                     [] c[1] = "H" -> << c[2], cur[2] >>
                     [] c[1] = "V" -> << cur[1], c[2] >>
                     [] OTHER -> cur
         IN  IF c[1] = "Z" THEN PathVerticesFrom(path, i + 1, pt)
             ELSE << pt >> \o PathVerticesFrom(path, i + 1, pt)

PathVertices(path) == PathVerticesFrom(path, 1, << 0, 0 >>)

(***************************************************************************)
(* render and the d3.csv callback.                                         *)
(*                                                                         *)
(* Every year group is filled by the same functions from its own year and  *)
(* the shared data map, so the document is followed through the list of    *)
(* its year groups and the elements of one group, the watched one.         *)
(***************************************************************************)
EmptyDocument == [yearGroups |-> << >>, dayRects |-> << >>, monthPaths |-> << >>]

\* The first and the last year rendered.
WatchedYears == {FirstYear, StopYear - 1}

\* What render puts into a watched group before it reads the data map
\* (computed once for each watched year).
GroupBeforeData ==
    [year \in WatchedYears |->
        [ dayRects   |-> attachTitlesToDayRects(generateDayRects(year)),
          monthPaths |-> appendMonthPaths(year) ]]

render(map, year) ==
    [ yearGroups |-> generateYearGroups,
      dayRects   |-> updateClassAndTitleForDayRects(GroupBeforeData[year].dayRects, map),
      monthPaths |-> GroupBeforeData[year].monthPaths ]

\* The callback without its throw: the failure is dropped and the page is
\* rendered from whatever rows there are.
CsvCallback_SwallowsError(err, csv, year) ==
    LET map == transformCsvData(csv)
    IN  [ pc |-> "rendered", thrown |-> "none",
          calls |-> << "transformCsvData", "render" >>,
          data |-> map, document |-> render(map, year) ]

\* The callback of d3.csv: what it leaves behind, given the loader's err
\* and csv and the watched year.
CsvCallback(err, csv, year) ==
    IF err # "null"
    THEN [ pc |-> "thrown", thrown |-> err, calls |-> << >>,
           data |-> << >>, document |-> EmptyDocument ]
    ELSE LET map == transformCsvData(csv)
         IN  [ pc |-> "rendered", thrown |-> "none",
               calls |-> << "transformCsvData", "render" >>,
               data |-> map, document |-> render(map, year) ]

(***************************************************************************)
(* Bounds and input sets.                                                  *)
(***************************************************************************)
MaxRows == 2
MaxWeek == 2

Years == {generateYearGroups[i] : i \in 1 .. Len(generateYearGroups)}

\* The first day of the first year and the last day of the last year: each
\* watched group holds one of them and lacks the other.
CsvDates == { << FirstYear, 1, 1 >>, << StopYear - 1, 12, 31 >> }
CsvValues == { DomainMin - 5, 9, 10, DomainMax, DomainMax + 50 }
CsvNames == { "a", "b" }
CsvRows == [Date : CsvDates, Value : CsvValues, Name : CsvNames]
CsvFiles == UNION {[1 .. n -> CsvRows] : n \in 0 .. MaxRows}

Responses ==
    {[err |-> "null", csv |-> f] : f \in CsvFiles}
        \cup {[err |-> "XMLHttpRequest error", csv |-> << >>]}

(***************************************************************************)
(* Spec: the script, from the load of the CSV file to the rendered page.   *)
(***************************************************************************)
GridIdle ==
    /\ gYear = 0 /\ gDays = << >> /\ gRects = << >> /\ gMonth = 0 /\ gPath = << >>

FormIdle == fArgs = << >> /\ fPath = << >>

PipeIdle ==
    /\ response = [err |-> "null", csv |-> << >>]
    /\ pc = "idle" /\ calls = << >> /\ data = << >> /\ thrown = "none"
    /\ watch = 0
    /\ yearGroups = << >> /\ dayRects = << >> /\ monthPaths = << >>

Init ==
    /\ response \in Responses
    /\ watch \in WatchedYears
    /\ pc = "loading"
    /\ calls = << >>
    /\ data = << >>
    /\ thrown = "none"
    /\ yearGroups = << >> /\ dayRects = << >> /\ monthPaths = << >>
    /\ GridIdle /\ FormIdle

Loaded ==
    /\ pc = "loading"
    /\ LET r == CsvCallback(response.err, response.csv, watch)
       IN  /\ pc' = r.pc
           /\ thrown' = r.thrown
           /\ calls' = r.calls
           /\ data' = r.data
           /\ yearGroups' = r.document.yearGroups
           /\ dayRects' = r.document.dayRects
           /\ monthPaths' = r.document.monthPaths
    /\ UNCHANGED << response, watch, gridVars, formVars >>

Next == Loaded

Spec == Init /\ [][Next]_vars

(***************************************************************************)
(* SpecGrid: the functions that lay out one year group, applied to every   *)
(* year the script renders.                                                *)
(***************************************************************************)
InitGrid ==
    /\ gYear \in Years
    /\ gDays = << >> /\ gRects = << >> /\ gMonth = 0 /\ gPath = << >>
    /\ PipeIdle /\ FormIdle

GridDayRects ==
    /\ gRects = << >>
    /\ gDays' = getAllDaysInYear(gYear)
    /\ gRects' = generateDayRects(gYear)
    /\ UNCHANGED << gYear, gMonth, gPath, pipeVars, formVars >>

GridMonthPath ==
    /\ gRects # << >>
    /\ \E i \in 1 .. Len(getAllMonthsInYear(gYear)) :
           /\ gMonth' = getAllMonthsInYear(gYear)[i]
           /\ gPath' = getPathDescriptionForMonth(getAllMonthsInYear(gYear)[i])
    /\ UNCHANGED << gYear, gDays, gRects, pipeVars, formVars >>

NextGrid == GridDayRects \/ GridMonthPath

SpecGrid == InitGrid /\ [][NextGrid]_vars

(***************************************************************************)
(* SpecFormula: the outline formula alone, on any four indices.            *)
(***************************************************************************)
InitFormula ==
    /\ fArgs \in [thisWeek : 0 .. MaxWeek, thisDow : 0 .. (GridRows - 1),
                  nextWeek : 0 .. MaxWeek, nextDow : 0 .. (GridRows - 1)]
    /\ fPath = << >>
    /\ PipeIdle /\ GridIdle

FormulaApplied ==
    /\ fPath = << >>
    /\ fPath' = PathFormula(fArgs.thisWeek, fArgs.thisDow, fArgs.nextWeek, fArgs.nextDow)
    /\ UNCHANGED << fArgs, pipeVars, gridVars >>

NextFormula == FormulaApplied

SpecFormula == InitFormula /\ [][NextFormula]_vars

(***************************************************************************)
(* Geometry used to state the properties of the outlines.                  *)
(***************************************************************************)
Min(a, b) == IF a <= b THEN a ELSE b
Max(a, b) == IF a >= b THEN a ELSE b

\* The edges of the closed loop through the vertices v, the last one being
\* the closing edge back to the first vertex.
LoopEdges(v) == [i \in 1 .. Len(v) |-> << v[i], v[(i % Len(v)) + 1] >>]

IsHorizontal(e) == e[1][2] = e[2][2] /\ e[1][1] # e[2][1]
IsVertical(e) == e[1][1] = e[2][1] /\ e[1][2] # e[2][2]
IsPoint(e) == e[1] = e[2]

\* The grid points (in cells) of an axis-aligned edge whose ends are on the grid.
EdgePoints(e) ==
    { << x, y >> : x \in (Min(e[1][1], e[2][1]) \div cellSize) .. (Max(e[1][1], e[2][1]) \div cellSize),
                   y \in (Min(e[1][2], e[2][2]) \div cellSize) .. (Max(e[1][2], e[2][2]) \div cellSize) }

\* The edges of non-zero length, in drawing order.
RECURSIVE DrawnEdgesFrom(_, _)
DrawnEdgesFrom(es, i) ==
    IF i > Len(es) THEN << >>
    ELSE (IF IsPoint(es[i]) THEN << >> ELSE << es[i] >>) \o DrawnEdgesFrom(es, i + 1)

DrawnEdges(v) == DrawnEdgesFrom(LoopEdges(v), 1)

\* A closed loop of edges that does not meet itself: consecutive edges share
\* exactly the vertex between them, other edges share nothing.
SimpleLoop(es) ==
    /\ Len(es) >= 4
    /\ \A i, j \in 1 .. Len(es) :
           i < j =>
               LET common == EdgePoints(es[i]) \cap EdgePoints(es[j])
               IN  IF j = i + 1 THEN common = { << es[i][2][1] \div cellSize, es[i][2][2] \div cellSize >> }
                   ELSE IF i = 1 /\ j = Len(es)
                        THEN common = { << es[1][1][1] \div cellSize, es[1][1][2] \div cellSize >> }
                        ELSE common = {}

\* The cell whose top-left corner is (x, y) is enclosed by the loop through
\* v when a ray from its centre to the left crosses the loop an odd number
\* of times (coordinates doubled to keep the centre on the integers).
Encloses(v, x, y) ==
    LET es == LoopEdges(v)
        cx == 2 * x + cellSize
        cy == 2 * y + cellSize
        crossed == { i \in 1 .. Len(es) :
                       /\ IsVertical(es[i])
                       /\ 2 * es[i][1][1] < cx
                       /\ 2 * Min(es[i][1][2], es[i][2][2]) < cy
                       /\ cy < 2 * Max(es[i][1][2], es[i][2][2]) }
    IN  Cardinality(crossed) % 2 = 1

\* The top-left corners of the cells of a grid of the given number of columns.
GridCells(columns) ==
    { << w * cellSize, d * cellSize >> : w \in 0 .. (columns - 1), d \in 0 .. (GridRows - 1) }

EnclosedCells(v, columns) == { c \in GridCells(columns) : Encloses(v, c[1], c[2]) }

\* The cells of the rects of the watched year whose date is in month m (1..12).
MonthRectCells(rects, m) ==
    { << rects[i].x, rects[i].y >> : i \in { k \in 1 .. Len(rects) : rects[k].datum[2] = m } }

GridColumns == 55

(***************************************************************************)
(* Properties.                                                             *)
(***************************************************************************)

\* C1: every date enumerated for a rendered year has a week-of-year index
\* (getWeekNumber) in 0..52, the 53 columns the year group is laid out for,
\* and a day-of-week index in 0..6.
C1_IndicesInRange ==
    \A i \in 1 .. Len(gDays) :
        /\ getWeekNumber(gDays[i]) \in 0 .. (YearColumns - 1)
        /\ getDayNumber(gDays[i]) \in 0 .. (GridRows - 1)

\* C2: the cells enclosed by the outline of a month are exactly the cells
\* getX/getY give to the days of that month: every day of the month is
\* inside, and no day of another month of the year is.
C2_OutlineEnclosesMonth ==
    gPath # << >> =>
        LET v == PathVertices(gPath)
            m == getMonth(gMonth) + 1
        IN  /\ EnclosedCells(v, GridColumns) = MonthRectCells(gRects, m)
            /\ \A i \in 1 .. Len(gRects) :
                   Encloses(v, gRects[i].x, gRects[i].y) <=> gRects[i].datum[2] = m

C2_Witness ==
    /\ gPath # << >>
    /\ getMonth(gMonth) = 1
    /\ Cardinality(MonthRectCells(gRects, 2)) = 29
    /\ \E i \in 1 .. Len(gRects) :
           gRects[i].datum[2] = 3 /\ ~Encloses(PathVertices(gPath), gRects[i].x, gRects[i].y)

January2016 == NewDate(2016, 0, 1)

\* C3, as stated: for cellSize 17 and January 2016 the first day has day
\* index 5 and week index 0, the last day has day index 0 and week index 4,
\* and the outline is (17,85) (0,85) (0,119) (68,119) (68,17) (85,17) (85,0)
\* (17,0).
C3_AsStated ==
    (gPath # << >> /\ gMonth = January2016) =>
        LET last == NewDate(2016, 1, 0)
        IN  /\ cellSize = 17
            /\ getDayNumber(gMonth) = 5 /\ getWeekNumber(gMonth) = 0
            /\ getDayNumber(last) = 0 /\ getWeekNumber(last) = 4
            /\ PathVertices(gPath) =
                   << << 17, 85 >>, << 0, 85 >>, << 0, 119 >>, << 68, 119 >>,
                      << 68, 17 >>, << 85, 17 >>, << 85, 0 >>, << 17, 0 >> >>

\* C3, amended: for cellSize 17 and January 2016 the first day has day index
\* 5 and week index 0, the last day (Jan 31 2016) has day index 0 and week
\* index 5, and the outline is (17,85) (0,85) (0,119) (85,119) (85,17)
\* (102,17) (102,0) (17,0).
C3_January2016 ==
    (gPath # << >> /\ gMonth = January2016) =>
        LET last == NewDate(2016, 1, 0)
        IN  /\ cellSize = 17
            /\ d3_timeFormat(last) = << 2016, 1, 31 >>
            /\ getDayNumber(gMonth) = 5 /\ getWeekNumber(gMonth) = 0
            /\ getDayNumber(last) = 0 /\ getWeekNumber(last) = 5
            /\ PathVertices(gPath) =
                   << << 17, 85 >>, << 0, 85 >>, << 0, 119 >>, << 85, 119 >>,
                      << 85, 17 >>, << 102, 17 >>, << 102, 0 >>, << 17, 0 >> >>

C3_Witness == gPath # << >> /\ gMonth = January2016 /\ gYear = 2016

\* The edges of odd rank lie on a horizontal line and those of even rank on
\* a vertical line.
AlternatingLines(es) ==
    \A i \in 1 .. Len(es) :
        IF i % 2 = 1 THEN es[i][1][2] = es[i][2][2] ELSE es[i][1][1] = es[i][2][1]

\* C4, as stated: the 8 vertices of every month outline, closed back to the
\* first, form one closed loop that does not meet itself, of 8 edges that
\* alternate horizontal/vertical, 4 distinct horizontal and 4 distinct
\* vertical ones.
C4_AsStated ==
    gPath # << >> =>
        LET v == PathVertices(gPath)
            es == LoopEdges(v)
        IN  /\ Len(v) = 8
            /\ \A i \in 1 .. 8 : IF i % 2 = 1 THEN IsHorizontal(es[i]) ELSE IsVertical(es[i])
            /\ Cardinality({es[i] : i \in {1, 3, 5, 7}}) = 4
            /\ Cardinality({es[i] : i \in {2, 4, 6, 8}}) = 4
            /\ SimpleLoop(es)

\* C4, amended: the 8 vertices of every month outline, closed back to the
\* first, form one closed loop of 8 edges lying alternately on a horizontal
\* and on a vertical line; the 4 horizontal edges are distinct and of
\* non-zero length, like the vertical edges 2 and 6; the vertical edge 4 has
\* zero length exactly when the last day of the month is a Saturday and the
\* closing edge 8 exactly when its first day is a Sunday; the edges of
\* non-zero length form a loop that does not meet itself.
C4_OutlineLoop ==
    gPath # << >> =>
        LET v == PathVertices(gPath)
            es == LoopEdges(v)
            last == NewDate(getFullYear(gMonth), getMonth(gMonth) + 1, 0)
        IN  /\ Len(v) = 8
            /\ AlternatingLines(es)
            /\ \A i \in {1, 3, 5, 7} : IsHorizontal(es[i])
            /\ Cardinality({es[i] : i \in {1, 3, 5, 7}}) = 4
            /\ IsVertical(es[2]) /\ IsVertical(es[6]) /\ es[2] # es[6]
            /\ IsPoint(es[4]) <=> getDay(last) = 6
            /\ ~IsPoint(es[4]) => IsVertical(es[4])
            /\ IsPoint(es[8]) <=> getDay(gMonth) = 0
            /\ ~IsPoint(es[8]) => IsVertical(es[8])
            /\ SimpleLoop(DrawnEdges(v))

C4_Witness ==
    /\ gPath # << >>
    /\ getDay(gMonth) = 0
    /\ getDay(NewDate(getFullYear(gMonth), getMonth(gMonth) + 1, 0)) = 6
    /\ Len(DrawnEdges(PathVertices(gPath))) = 6

\* C5: getAllDaysInYear( Y ) yields 365 dates, 366 when Y is a leap year,
\* each the day after the one before it, from Jan 1 of Y to Dec 31 of Y;
\* Jan 1 of Y + 1 is not among them.
C5_AllDaysInYear ==
    gDays # << >> =>
        /\ Len(gDays) = (IF gYear % 4 = 0 /\ (gYear % 100 # 0 \/ gYear % 400 = 0) THEN 366 ELSE 365)
        /\ \A i \in 1 .. (Len(gDays) - 1) : gDays[i + 1] = gDays[i] + 1
        /\ d3_timeFormat(gDays[1]) = << gYear, 1, 1 >>
        /\ d3_timeFormat(gDays[Len(gDays)]) = << gYear, 12, 31 >>
        /\ NewDate(gYear + 1, 0, 1) \notin {gDays[i] : i \in 1 .. Len(gDays)}

C5_Witness == Len(gDays) = 366 /\ gYear = 2028

\* The path is drawn as a plain rectangle: four edges of non-zero length,
\* none retraced, overlapping or left over.
PlainRectangle(v) == Len(DrawnEdges(v)) = 4 /\ SimpleLoop(DrawnEdges(v))

C7_LoadFailureHalts ==
    /\ response.err # "null" =>
           /\ pc \in {"loading", "thrown"}
           /\ calls = << >>
           /\ yearGroups = << >> /\ dayRects = << >> /\ monthPaths = << >>
           /\ pc = "thrown" => thrown = response.err
    /\ response.err = "null" =>
           /\ pc \in {"loading", "rendered"}
           /\ thrown = "none"
           /\ pc = "rendered" =>
                  /\ calls = << "transformCsvData", "render" >>
                  /\ Len(yearGroups) = StopYear - FirstYear
                  /\ Len(dayRects) = DaysInYear(watch)
                  /\ Len(monthPaths) = 12

C7_Witness ==
    /\ pc = "thrown" /\ thrown # "none" /\ response.err # "null"
    /\ yearGroups = << >>

\* The bucket of a value: tenths of [0, 100], values outside landing in the
\* first or the last.
Bucket(value) ==
    IF value < 0 THEN 0 ELSE IF value >= 100 THEN 9 ELSE value \div 10

C10_CellsInOrder ==
    gRects # << >> =>
        /\ Cardinality({<< gRects[i].x, gRects[i].y >> : i \in 1 .. Len(gRects)}) = Len(gRects)
        /\ \A i \in 1 .. Len(gRects) :
               /\ gRects[i].x = getWeekNumber(gDays[i]) * cellSize
               /\ gRects[i].y = getDayNumber(gDays[i]) * cellSize
        /\ \A i \in 1 .. (Len(gRects) - 1) :
               IF getDayNumber(gDays[i]) = 6
               THEN /\ gRects[i + 1].x = gRects[i].x + cellSize
                    /\ gRects[i + 1].y = 0
               ELSE /\ gRects[i + 1].x = gRects[i].x
                    /\ gRects[i + 1].y = gRects[i].y + cellSize

C10_Witness ==
    /\ gRects # << >>
    /\ gRects[1].y = 6 * cellSize
    /\ gRects[2] .x = cellSize /\ gRects[2].y = 0
    /\ gRects[Len(gRects)].x = 53 * cellSize

====
